---- MODULE Spec2Model ----
(***************************************************************************)
(* Azure Service Bus source adapter (pkg/sources/adapter/                  *)
(* azureservicebussource/adapter.go): the message-handling pipeline.       *)
(*                                                                         *)
(* adapter.Start hands adapter.handleMessage to the broker library's       *)
(* Listen and blocks on the listener handle.  handleMessage runs, for one  *)
(* message: the nil check, the message processor, the dispatch loop        *)
(* (validate, sanitize on failure, send, collect send errors) and the      *)
(* completion of the message.  Every call handleMessage makes to a         *)
(* collaborator (processor, event sender, completion handle) is one step   *)
(* of the invocation, its result drawn from a small set.                   *)
(***************************************************************************)
EXTENDS Naturals, Sequences, FiniteSets, TLC

VARIABLES
    lstate,     \* Listener: "Idle", "Listening" or "Stopped"
    ctxLive,    \* TRUE until the controlling context is cancelled
    lastError,  \* the listener handle's terminal error (handle.Err())
    startRet,   \* what Start returned; Pending while Start has not returned
    h,          \* the invocations of handleMessage, one per handler slot
    su          \* NewAdapter: its position, its locals and what it returned

vars == <<lstate, ctxLive, lastError, startRet, h, su>>

(***************************************************************************)
(* Bounds of the model.                                                    *)
(***************************************************************************)
\* Most envelopes a message processor yields for one message.
MaxEvents == 2

\* Slots in which the broker library runs handleMessage.
AllHandlers == {"h1", "h2"}

\* IDs of the messages the broker delivers.
MsgIDs == {"m1", "m2"}

\* Causes of a message processor failure.
ProcessCauses == {"malformed", "unsupported"}

\* Non-ACK results of the event sender.
SendFailures == {"timeout", "nack"}

\* Errors of the broker's completion call.
CompleteFailures == {"lock lost"}

(***************************************************************************)
(* Values.                                                                 *)
(***************************************************************************)
\* A nil error.
Nil == [kind |-> "nil"]

\* Start, or an invocation of handleMessage, has not returned yet.
Pending == [kind |-> "pending"]

\* msg == nil
NilMsg == [isNil |-> TRUE, ID |-> ""]

Messages == {NilMsg} \cup {[isNil |-> FALSE, ID |-> id] : id \in MsgIDs}

\* A CloudEvent, as far as Validate and sanitizeEvent look at it: its id,
\* its dataschema ("" is unset, "#" is what Azure Event Grid sends and is no
\* valid URI, "s" stands for a valid one) and its type ("" is invalid).
\* The n-th envelope made from message ID has the id <<ID, n>>: ids are
\* unique per envelope, and are only ever copied and compared.
Envelope(ID, n, schema, type) ==
    [id |-> <<ID, n>>, dataschema |-> schema, type |-> type]

\* The dataschema and type attributes a processor may produce.
Attributes == [dataschema : {"", "#", "s"}, type : {"t", ""}]

\* The envelope sequences a processor may yield for msg.
EventSeqs(msg) ==
    {[i \in DOMAIN a |-> Envelope(msg.ID, i, a[i].dataschema, a[i].type)] :
        a \in UNION {[1..n -> Attributes] : n \in 0..MaxEvents}}

\* The results of msgPrcsr.Process(msg): events, or an error.
ProcessOutcomes(msg) ==
    {[err |-> [kind |-> "cause", cause |-> c], events |-> <<>>] : c \in ProcessCauses}
    \cup {[err |-> Nil, events |-> s] : s \in EventSeqs(msg)}

\* The results of cli.Send: ACK or a failure.
SendResults ==
    {[kind |-> "ACK", cause |-> ""]}
    \cup {[kind |-> "NACK", cause |-> c] : c \in SendFailures}

\* The results of the completion action: nil or a broker error.
CompleteResults ==
    {Nil} \cup {[kind |-> "broker", cause |-> c] : c \in CompleteFailures}

(***************************************************************************)
(* Helpers of handleMessage.                                               *)
(***************************************************************************)
\* ev.Validate(): the attributes of ev that fail validation (empty: valid).
Validate(ev) ==
    (IF ev.dataschema = "#" THEN {"dataschema"} ELSE {})
    \cup (IF ev.type = "" THEN {"type"} ELSE {})

\* origEvent.SetDataSchema("")
SetDataSchema(ev, v) == [ev EXCEPT !.dataschema = v]

\* Mutation of sanitizeEvent: dataschema is cleared whatever failed.
sanitizeEvent_AlwaysClear(validErrs, origEvent) == SetDataSchema(origEvent, "")

\* Mutation of sanitizeEvent: the "dataschema" case is missing.
sanitizeEvent_NoFix(validErrs, origEvent) == origEvent

\* sanitizeEvent: fix what the validation errors list and can be fixed.
sanitizeEvent(validErrs, origEvent) ==
    IF "dataschema" \in validErrs THEN SetDataSchema(origEvent, "") ELSE origEvent

\* cloudevents.IsACK(result)
IsACK(result) == result.kind = "ACK"

\* sendCloudEvent: nil when the sink ACKed, the sender's result otherwise.
sendCloudEvent(result) == IF ~IsACK(result) THEN result ELSE Nil

\* fmt.Errorf("failed to send event with ID %s: %w", ev.ID(), err)
SendError(ev, err) == [id |-> ev.id, cause |-> err.cause]

\* Mutation of CollectSendError: the batch is one list of the adapter, shared
\* by the invocations, and not a local of each.
CollectSendError_Shared(errs, ev, err) ==
    LET shared == h["h1"].sendErrs \o h["h2"].sendErrs
    IN IF err # Nil THEN Append(shared, SendError(ev, err)) ELSE shared

\* Mutation of CollectSendError: the failure is not recorded.
CollectSendError_Dropped(errs, ev, err) == errs

\* Mutation of CollectSendError: the failure replaces the ones before it.
CollectSendError_Overwritten(errs, ev, err) ==
    IF err # Nil THEN <<SendError(ev, err)>> ELSE errs

\* sendErrs.errs after the send of ev returned err.
CollectSendError(errs, ev, err) ==
    IF err # Nil THEN Append(errs, SendError(ev, err)) ELSE errs

\* fmt.Errorf("processing Service Bus message with ID %s: %w", msg.ID, err)
ProcessingError(msg, err) ==
    [kind |-> "processing", ID |-> msg.ID, cause |-> err.cause]

\* fmt.Errorf("sending events to the sink: %w", sendErrs)
SendingError(errs) == [kind |-> "sending", errs |-> errs]

\* Mutation of HasSendErrors: the test is inverted.
HasSendErrors_Inverted(errs) == Len(errs) = 0

\* len(sendErrs.errs) != 0: the message must not be completed.
HasSendErrors(errs) == Len(errs) # 0

(***************************************************************************)
(* Startup: NewAdapter and its helpers.  A string that the code builds or  *)
(* takes apart is the sequence of its pieces: a resource ID is the         *)
(* sequence of its "/"-separated segments, an entity path the sequence of  *)
(* the pieces entityPath concatenates.                                     *)
(***************************************************************************)
resourceProviderServiceBus == "Microsoft.ServiceBus"

resourceTypeQueues == "queues"

resourceTypeTopics == "topics"

resourceTypeSubscriptions == "subscriptions"

\* azure.PublicCloud.ServiceBusEndpointSuffix
ServiceBusEndpointSuffix == "servicebus.windows.net"

\* A resource ID string: /subscriptions/{s}/resourceGroups/{rg}/providers/
\* {provider}[/namespaces/{namespace}]/{type}/{name}[/{subType}/{subName}],
\* as the sequence of its segments.
ResourceIDString(provider, namespace, type, name, subType, subName) ==
    <<"subscriptions", "s1", "resourceGroups", "rg1", "providers", provider>>
    \o (IF namespace # "" THEN <<"namespaces", namespace>> ELSE <<>>)
    \o <<type, name>>
    \o (IF subType # "" THEN <<subType, subName>> ELSE <<>>)

\* The values of SERVICEBUS_ENTITY_RESOURCE_ID: well-formed resource IDs of
\* Service Bus and of other providers, with and without a namespace, and a
\* string that is no resource ID.  Every segment is a non-empty string: what
\* the deserializer makes of an empty segment is not modelled.
ResourceIDStrings ==
    {ResourceIDString(p, n, t, "n1", s, "s1") :
        p \in {resourceProviderServiceBus, "Microsoft.EventHub"},
        n \in {"", "ns1"},
        t \in {resourceTypeQueues, resourceTypeTopics, "eventhubs"},
        s \in {"", resourceTypeSubscriptions, "rules"}}
    \cup {<<"not", "a", "resource", "id">>}

\* The zero value of v1alpha1.AzureResourceID.
EmptyResourceID ==
    [SubscriptionID |-> "", ResourceGroup |-> "", ResourceProvider |-> "",
     Namespace |-> "", ResourceType |-> "", ResourceName |-> "",
     SubResourceType |-> "", SubResourceName |-> ""]

\* A nil *v1alpha1.AzureResourceID.
NilResourceID == [isNil |-> TRUE]

\* json.Unmarshal into v1alpha1.AzureResourceID: the segments after the
\* provider are [namespaces, namespace,] type, name [, subType, subName].
UnmarshalResourceID(s) ==
    IF \/ Len(s) < 8
       \/ s[1] # "subscriptions" \/ s[3] # "resourceGroups" \/ s[5] # "providers"
    THEN [err |-> [kind |-> "invalid resource ID"], resID |-> EmptyResourceID]
    ELSE LET rest == SubSeq(s, 7, Len(s))
             hasNs == rest[1] = "namespaces" /\ Len(rest) >= 4
             r == IF hasNs THEN SubSeq(rest, 3, Len(rest)) ELSE rest
         IN IF Len(r) \notin {2, 4}
            THEN [err |-> [kind |-> "invalid resource ID"], resID |-> EmptyResourceID]
            ELSE [err |-> Nil,
                  resID |-> [SubscriptionID |-> s[2],
                             ResourceGroup |-> s[4],
                             ResourceProvider |-> s[6],
                             Namespace |-> IF hasNs THEN rest[2] ELSE "",
                             ResourceType |-> r[1],
                             ResourceName |-> r[2],
                             SubResourceType |-> IF Len(r) = 4 THEN r[3] ELSE "",
                             SubResourceName |-> IF Len(r) = 4 THEN r[4] ELSE ""]]

\* Mutation of NotServiceBusEntity: queues may have a sub-resource.
NotServiceBusEntity_NoQueueCheck(resID) ==
    \/ resID.ResourceProvider # resourceProviderServiceBus
    \/ resID.Namespace = ""
    \/ (resID.ResourceType # resourceTypeQueues /\ resID.ResourceType # resourceTypeTopics)
    \/ (resID.ResourceType = resourceTypeTopics
        /\ resID.SubResourceType # resourceTypeSubscriptions)

\* The test of parseServiceBusResourceID: resID is no Service Bus entity.
NotServiceBusEntity(resID) ==
    \/ resID.ResourceProvider # resourceProviderServiceBus
    \/ resID.Namespace = ""
    \/ (resID.ResourceType # resourceTypeQueues /\ resID.ResourceType # resourceTypeTopics)
    \/ (resID.ResourceType = resourceTypeQueues /\ resID.SubResourceType # "")
    \/ (resID.ResourceType = resourceTypeTopics
        /\ resID.SubResourceType # resourceTypeSubscriptions)

\* parseServiceBusResourceID: the structured resource ID, or an error.
parseServiceBusResourceID(resIDStr) ==
    LET u == UnmarshalResourceID(resIDStr)
    IN IF u.err # Nil
       THEN [resID |-> NilResourceID,
             err |-> [kind |-> "deserializing resource ID string", cause |-> u.err]]
       ELSE IF NotServiceBusEntity(u.resID)
            THEN [resID |-> NilResourceID,
                  err |-> [kind |-> "resource ID does not refer to a Service Bus entity"]]
            ELSE [resID |-> u.resID, err |-> Nil]

\* Mutation of entityPath: the case of topics is missing.
entityPath_QueueOnly(entityID) ==
    IF entityID.ResourceType = resourceTypeQueues
    THEN <<entityID.ResourceName>>
    ELSE <<>>

\* entityPath: the entity path of the given Service Bus entity.
entityPath(entityID) ==
    CASE entityID.ResourceType = resourceTypeQueues -> <<entityID.ResourceName>>
      [] entityID.ResourceType = resourceTypeTopics ->
             <<entityID.ResourceName, "/Subscriptions/", entityID.SubResourceName>>
      [] OTHER -> <<>>

\* A connection string taken as it is from SERVICEBUS_CONNECTION_STRING.
Configured(connStr) == [raw |-> connStr]

\* fmt.Sprintf("Endpoint=sb://%s.%s;SharedAccessKeyName=%s;SharedAccessKey=%s;
\* EntityPath=%s", ...)
Composed(namespace, suffix, keyName, keyValue, path) ==
    [Endpoint |-> <<"sb://", namespace, ".", suffix>>,
     SharedAccessKeyName |-> keyName,
     SharedAccessKey |-> keyValue,
     EntityPath |-> path]

\* Mutation of connectionStringFromEnvironment: a configured connection
\* string takes precedence over the key.
connectionStringFromEnvironment_ConnStrFirst(environ, namespace, path) ==
    IF environ.connStr = "" /\ (environ.keyName # "" \/ environ.keyValue # "")
    THEN Composed(namespace, ServiceBusEndpointSuffix,
                  environ.keyName, environ.keyValue, path)
    ELSE Configured(environ.connStr)

\* Mutation of connectionStringFromEnvironment: a connection string is
\* composed only when the key name and the key value are both set.
connectionStringFromEnvironment_BothKeys(environ, namespace, path) ==
    IF environ.keyName # "" /\ environ.keyValue # ""
    THEN Composed(namespace, ServiceBusEndpointSuffix,
                  environ.keyName, environ.keyValue, path)
    ELSE Configured(environ.connStr)

\* connectionStringFromEnvironment: environ holds what os.Getenv returns for
\* SERVICEBUS_CONNECTION_STRING, SERVICEBUS_KEY_NAME and SERVICEBUS_KEY_VALUE.
connectionStringFromEnvironment(environ, namespace, path) ==
    IF environ.keyName # "" \/ environ.keyValue # ""
    THEN Composed(namespace, ServiceBusEndpointSuffix,
                  environ.keyName, environ.keyValue, path)
    ELSE Configured(environ.connStr)

\* fmt.Errorf("neither Azure Active Directory nor SAS token provider could be
\* built - AAD error: %v, SAS error: %v", aadErr, sasErr)
AuthError(aadErr, sasErr) == [kind |-> "auth", aad |-> aadErr, sas |-> sasErr]

(***************************************************************************)
(* NewAdapter, step by step.  s is the record of the call: its position    *)
(* (pc), its parameter (env, with the environment variables the helpers    *)
(* read), its locals (entityID, connStr, sasErr, path), a log of the       *)
(* authentication methods tried and their results (attempts), the result   *)
(* of the namespace                                                        *)
(* option (nsErr), the panic that ended the call, if any (panic), and the  *)
(* adapter it returned (adapter).                                          *)
(***************************************************************************)
\* No adapter was returned.
NoAdapter == [isNil |-> TRUE]

\* The values of SERVICEBUS_MESSAGE_PROCESSOR.
ProcessorNames == {"default", "custom"}

\* The environment NewAdapter runs in.
EnvConfigs ==
    [EntityResourceID : ResourceIDStrings,
     MessageProcessor : ProcessorNames,
     keyName : {"", "RootManageSharedAccessKey"},
     keyValue : {"", "secret"},
     connStr : {"", "Endpoint=sb://other"}]

\* The environment is out of NewAdapter's reach once it has returned.
NoEnv ==
    [EntityResourceID |-> <<>>, MessageProcessor |-> "",
     keyName |-> "", keyValue |-> "", connStr |-> ""]

\* NewAdapter has been called and has not run yet.
StartupBegin(env) ==
    [pc |-> "parse", env |-> env, entityID |-> NilResourceID,
     connStr |-> Pending, sasErr |-> Pending, attempts |-> <<>>,
     nsErr |-> Pending, path |-> <<>>, panic |-> Nil, adapter |-> NoAdapter]

\* NewAdapter has returned the adapter a: its locals are gone.
StartupEnd(a) ==
    [pc |-> "constructed", env |-> NoEnv, entityID |-> NilResourceID,
     connStr |-> Pending, sasErr |-> Pending, attempts |-> <<>>,
     nsErr |-> Nil, path |-> <<>>, panic |-> Nil, adapter |-> a]

\* logger.Panicw(msg, zap.Error(err)): the call ends, nothing is returned.
Panicked(s, msg, err) ==
    [s EXCEPT !.pc = "panicked", !.panic = [kind |-> msg, cause |-> err]]

\* entityID, err := parseServiceBusResourceID(env.EntityResourceID)
ParseStep(s) ==
    LET r == parseServiceBusResourceID(s.env.EntityResourceID)
    IN IF r.err # Nil
       THEN Panicked(s, "Unable to parse entity ID", r.err)
       ELSE [s EXCEPT !.pc = "sas", !.entityID = r.resID]

\* The errors of the library's namespace bindings.
BindingErrors == {Nil, [kind |-> "binding failed"]}

\* namespaceFromEnvironment, SAS authentication: sasErr is the result of
\* servicebus.NamespaceWithConnectionString(connStr)(ns).
SASStep(s, sasErr) ==
    LET connStr == connectionStringFromEnvironment(
                       s.env, s.entityID.Namespace, entityPath(s.entityID))
    IN [s EXCEPT !.pc = IF sasErr = Nil THEN "receiver" ELSE "aad",
                 !.connStr = connStr,
                 !.sasErr = sasErr,
                 !.attempts = Append(@, [method |-> "SAS", connStr |-> connStr,
                                         err |-> sasErr]),
                 !.nsErr = IF sasErr = Nil THEN Nil ELSE @]

\* namespaceFromEnvironment, AAD authentication: aadErr is the result of
\* servicebus.NamespaceWithEnvironmentBinding(entityID.Namespace)(ns).  An
\* error of the option is the error of NewNamespace, and NewAdapter panics.
AADStep(s, aadErr) ==
    LET tried == [s EXCEPT !.attempts =
                      Append(@, [method |-> "AAD", connStr |-> Pending,
                                 err |-> aadErr])]
    IN IF aadErr = Nil
       THEN [tried EXCEPT !.pc = "receiver", !.nsErr = Nil]
       ELSE Panicked([tried EXCEPT !.nsErr = AuthError(aadErr, s.sasErr)],
                     "Unable to obtain interface for Service Bus Namespace",
                     AuthError(aadErr, s.sasErr))

\* entityPath := entityPath(entityID); rcvr, err := ns.NewReceiver(ctx, entityPath)
ReceiverStep(s, rcvErr) ==
    LET path == entityPath(s.entityID)
    IN IF rcvErr # Nil
       THEN Panicked([s EXCEPT !.path = path],
                     "Unable to obtain message receiver for Service Bus entity",
                     rcvErr)
       ELSE [s EXCEPT !.pc = "processor", !.path = path]

\* Mutation of ProcessorStep: the name of the processor is not checked.
ProcessorStep_AnyName(s) ==
    StartupEnd([isNil |-> FALSE, msgRcvr |-> s.path,
                msgPrcsr |-> s.env.MessageProcessor])

\* switch env.MessageProcessor { ... }; return &adapter{...}
ProcessorStep(s) ==
    IF s.env.MessageProcessor = "default"
    THEN StartupEnd([isNil |-> FALSE, msgRcvr |-> s.path, msgPrcsr |-> "default"])
    ELSE Panicked(s, "unsupported message processor", Nil)

NewAdapterParse ==
    /\ su.pc = "parse"
    /\ su' = ParseStep(su)
    /\ UNCHANGED <<lstate, ctxLive, lastError, startRet, h>>

NewAdapterSAS ==
    /\ su.pc = "sas"
    /\ \E sasErr \in BindingErrors : su' = SASStep(su, sasErr)
    /\ UNCHANGED <<lstate, ctxLive, lastError, startRet, h>>

NewAdapterAAD ==
    /\ su.pc = "aad"
    /\ \E aadErr \in BindingErrors : su' = AADStep(su, aadErr)
    /\ UNCHANGED <<lstate, ctxLive, lastError, startRet, h>>

NewAdapterReceiver ==
    /\ su.pc = "receiver"
    /\ \E rcvErr \in {Nil, [kind |-> "receiver failed"]} :
           su' = ReceiverStep(su, rcvErr)
    /\ UNCHANGED <<lstate, ctxLive, lastError, startRet, h>>

NewAdapterProcessor ==
    /\ su.pc = "processor"
    /\ su' = ProcessorStep(su)
    /\ UNCHANGED <<lstate, ctxLive, lastError, startRet, h>>

NewAdapter ==
    \/ NewAdapterParse
    \/ NewAdapterSAS
    \/ NewAdapterAAD
    \/ NewAdapterReceiver
    \/ NewAdapterProcessor

(***************************************************************************)
(* One invocation of handleMessage.                                        *)
(***************************************************************************)
\* A slot in which no invocation runs.
IdleSlot ==
    [pc |-> "idle", msg |-> NilMsg, events |-> <<>>, i |-> 1,
     sendErrs |-> <<>>, ret |-> Pending,
     processed |-> 0, processErr |-> Pending, produced |-> <<>>,
     validated |-> <<>>, sent |-> <<>>, results |-> <<>>,
     completions |-> 0, completeResult |-> Pending]

Init ==
    /\ lstate = "Idle"
    /\ ctxLive = TRUE
    /\ lastError = Nil
    /\ startRet = Pending
    /\ h = [k \in AllHandlers |-> IdleSlot]
    /\ su = StartupEnd([isNil |-> FALSE, msgRcvr |-> <<"n1">>, msgPrcsr |-> "default"])

\* The state before NewAdapter runs, for every environment.
InitStartup ==
    /\ lstate = "Idle"
    /\ ctxLive = TRUE
    /\ lastError = Nil
    /\ startRet = Pending
    /\ h = [k \in AllHandlers |-> IdleSlot]
    /\ su \in {StartupBegin(env) : env \in EnvConfigs}

(***************************************************************************)
(* The Listener: Start, and the broker library's listener behind it.       *)
(***************************************************************************)
\* ctx.Err()
ContextErr(live) == IF live THEN Nil ELSE [kind |-> "context", cause |-> "canceled"]

\* handle.Err(): the listener's last error, else the context's.
HandleErr(last, live) == IF last # Nil THEN last ELSE ContextErr(live)

\* Start, up to the wait: a.msgRcvr.Listen(ctx, HandlerFunc(a.handleMessage)).
\* The listener's context derives from ctx: it is done at once if ctx is.
Start ==
    /\ su.pc = "constructed"
    /\ lstate = "Idle"
    /\ lstate' = IF ctxLive THEN "Listening" ELSE "Stopped"
    /\ UNCHANGED <<ctxLive, lastError, startRet, h, su>>

\* Start, from the wait on: <-handle.Done(); return handle.Err()
StartReturn ==
    /\ lstate = "Stopped"
    /\ startRet = Pending
    /\ startRet' = HandleErr(lastError, ctxLive)
    /\ UNCHANGED <<lstate, ctxLive, lastError, h, su>>

\* The controlling context is cancelled: the listener handle is done.
Cancel ==
    /\ ctxLive
    /\ ctxLive' = FALSE
    /\ lstate' = IF lstate = "Listening" THEN "Stopped" ELSE lstate
    /\ UNCHANGED <<lastError, startRet, h, su>>

\* The broker connection terminates with an unrecoverable error.
BrokerTerminate ==
    /\ lstate = "Listening"
    /\ lstate' = "Stopped"
    /\ lastError' = [kind |-> "broker", cause |-> "connection lost"]
    /\ UNCHANGED <<ctxLive, startRet, h, su>>

\* The listener invokes the handler on a message it received.
Deliver(k, m) ==
    /\ lstate = "Listening"
    /\ h[k].pc = "idle"
    /\ h' = [h EXCEPT ![k] = [IdleSlot EXCEPT !.pc = "entry", !.msg = m]]
    /\ UNCHANGED <<lstate, ctxLive, lastError, startRet, su>>

\* The listener takes what the handler returned.  The receive loop is the
\* broker library's: whether it goes on after a handler error or stops the
\* listener with that error is its choice, and both are allowed here.
HandlerReturn(k, stop) ==
    /\ h[k].pc = "done"
    /\ h' = [h EXCEPT ![k] = IdleSlot]
    /\ IF stop /\ h[k].ret # Nil /\ lstate = "Listening"
       THEN lstate' = "Stopped" /\ lastError' = h[k].ret
       ELSE UNCHANGED <<lstate, lastError>>
    /\ UNCHANGED <<ctxLive, startRet, su>>

(***************************************************************************)
(* handleMessage, step by step.  inv is the invocation's record: its       *)
(* position (pc), its locals (msg, events, i, sendErrs), what it returned  *)
(* (ret), and a log of the calls it made to its collaborators: the runs of *)
(* the processor (processed), its error (processErr) and the envelopes as  *)
(* it produced them (produced); the indices of the envelopes validated     *)
(* (validated); the envelopes handed to the sender (sent) and the sender's *)
(* results (results); the calls of the completion action (completions) and *)
(* its result (completeResult).                                            *)
(***************************************************************************)
\* The loop head of "for _, ev := range events".
LoopPc(events, i) == IF i <= Len(events) THEN "validate" ELSE "finalize"

\* Mutation of NilCheck: the nil check is missing.
NilCheck_Missing(inv) == [inv EXCEPT !.pc = "process"]

\* if msg == nil { return nil }
NilCheck(inv) ==
    IF inv.msg.isNil
    THEN [inv EXCEPT !.pc = "done", !.ret = Nil]
    ELSE [inv EXCEPT !.pc = "process"]

\* Mutation of Processed: the message is completed before its envelopes
\* are dispatched.
Processed_CompleteFirst(inv, out) ==
    IF out.err # Nil
    THEN [inv EXCEPT !.pc = "done",
                     !.processed = @ + 1, !.processErr = out.err,
                     !.ret = ProcessingError(inv.msg, out.err)]
    ELSE [inv EXCEPT !.pc = "complete",
                     !.processed = @ + 1, !.processErr = Nil,
                     !.produced = out.events,
                     !.events = out.events, !.i = 1]

\* Mutation of Processed: the processor's error is not checked.
Processed_ErrIgnored(inv, out) ==
    [inv EXCEPT !.pc = LoopPc(out.events, 1),
                !.processed = @ + 1, !.processErr = out.err,
                !.produced = out.events,
                !.events = out.events, !.i = 1]

\* events, err := a.msgPrcsr.Process(msg); if err != nil { return ... }
Processed(inv, out) ==
    IF out.err # Nil
    THEN [inv EXCEPT !.pc = "done",
                     !.processed = @ + 1, !.processErr = out.err,
                     !.ret = ProcessingError(inv.msg, out.err)]
    ELSE [inv EXCEPT !.pc = LoopPc(out.events, 1),
                     !.processed = @ + 1, !.processErr = Nil,
                     !.produced = out.events,
                     !.events = out.events, !.i = 1]

\* if err := ev.Validate(); err != nil { ev = sanitizeEvent(err, ev) }
\* ev points into events: the sanitizer changes the envelope in place.
ValidateStep(inv) ==
    LET ev == inv.events[inv.i]
        err == Validate(ev)
    IN [inv EXCEPT !.pc = "send",
                   !.validated = Append(@, inv.i),
                   !.events[inv.i] = IF err # {} THEN sanitizeEvent(err, ev) ELSE ev]

\* Mutation of SendStep: the loop is left at the first failed send.
SendStep_ShortCircuit(inv, result) ==
    LET ev == inv.events[inv.i]
    IN [inv EXCEPT !.pc = IF IsACK(result)
                          THEN LoopPc(inv.events, inv.i + 1)
                          ELSE "finalize",
                   !.i = @ + 1,
                   !.sent = Append(@, ev),
                   !.results = Append(@, result),
                   !.sendErrs = CollectSendError(@, ev, sendCloudEvent(result))]

\* if err := sendCloudEvent(ctx, a.ceClient, ev); err != nil { append; continue }
SendStep(inv, result) ==
    LET ev == inv.events[inv.i]
    IN [inv EXCEPT !.pc = LoopPc(inv.events, inv.i + 1),
                   !.i = @ + 1,
                   !.sent = Append(@, ev),
                   !.results = Append(@, result),
                   !.sendErrs = CollectSendError(@, ev, sendCloudEvent(result))]

\* if len(sendErrs.errs) != 0 { return fmt.Errorf(...) }
SendErrsCheck(inv) ==
    IF HasSendErrors(inv.sendErrs)
    THEN [inv EXCEPT !.pc = "done", !.ret = SendingError(inv.sendErrs)]
    ELSE [inv EXCEPT !.pc = "complete"]

\* Mutation of CompleteStep: the completion error is swallowed.
CompleteStep_Swallowed(inv, r) ==
    [inv EXCEPT !.pc = "done", !.completions = @ + 1,
                !.completeResult = r, !.ret = Nil]

\* return messageCompleteFunc(msg)(ctx): r is the completion action's result.
CompleteStep(inv, r) ==
    [inv EXCEPT !.pc = "done", !.completions = @ + 1,
                !.completeResult = r, !.ret = r]

Entry(k) ==
    /\ h[k].pc = "entry"
    /\ h' = [h EXCEPT ![k] = NilCheck(h[k])]
    /\ UNCHANGED <<lstate, ctxLive, lastError, startRet, su>>

Process(k) ==
    /\ h[k].pc = "process"
    /\ \E out \in ProcessOutcomes(h[k].msg) :
           h' = [h EXCEPT ![k] = Processed(h[k], out)]
    /\ UNCHANGED <<lstate, ctxLive, lastError, startRet, su>>

DispatchValidate(k) ==
    /\ h[k].pc = "validate"
    /\ h' = [h EXCEPT ![k] = ValidateStep(h[k])]
    /\ UNCHANGED <<lstate, ctxLive, lastError, startRet, su>>

DispatchSend(k) ==
    /\ h[k].pc = "send"
    /\ \E result \in SendResults :
           h' = [h EXCEPT ![k] = SendStep(h[k], result)]
    /\ UNCHANGED <<lstate, ctxLive, lastError, startRet, su>>

Finalize(k) ==
    /\ h[k].pc = "finalize"
    /\ h' = [h EXCEPT ![k] = SendErrsCheck(h[k])]
    /\ UNCHANGED <<lstate, ctxLive, lastError, startRet, su>>

Complete(k) ==
    /\ h[k].pc = "complete"
    /\ \E r \in CompleteResults :
           h' = [h EXCEPT ![k] = CompleteStep(h[k], r)]
    /\ UNCHANGED <<lstate, ctxLive, lastError, startRet, su>>

(***************************************************************************)
(* Specifications.                                                         *)
(***************************************************************************)
\* The handler slot the sequential specification uses.
Handlers == {"h1"}

HandleMessage(k) ==
    \/ Entry(k)
    \/ Process(k)
    \/ DispatchValidate(k)
    \/ DispatchSend(k)
    \/ Finalize(k)
    \/ Complete(k)

Listener(k) ==
    \/ \E m \in Messages : Deliver(k, m)
    \/ \E stop \in BOOLEAN : HandlerReturn(k, stop)

Next ==
    \/ Start
    \/ StartReturn
    \/ Cancel
    \/ BrokerTerminate
    \/ \E k \in Handlers : Listener(k)
    \/ \E k \in Handlers : HandleMessage(k)

Spec == Init /\ [][Next]_vars

\* The processor outcomes of the concurrent specification: an error, or up to
\* MaxEvents envelopes of a valid type, with a dataschema that is set.
ConcurrentOutcomes(msg) ==
    {out \in ProcessOutcomes(msg) :
        /\ out.err # Nil => out.err.cause = "malformed"
        /\ \A i \in DOMAIN out.events :
               out.events[i].dataschema # "" /\ out.events[i].type = "t"}

\* Process, on the outcomes of the concurrent specification.
ProcessConcurrent(k) ==
    /\ h[k].pc = "process"
    /\ \E out \in ConcurrentOutcomes(h[k].msg) :
           h' = [h EXCEPT ![k] = Processed(h[k], out)]
    /\ UNCHANGED <<lstate, ctxLive, lastError, startRet, su>>

\* The listener invokes the handler on a message that no running invocation
\* handles: the invocations that overlap are on distinct messages.
DeliverDistinct(k, m) ==
    /\ \A j \in AllHandlers \ {k} : h[j].pc = "idle" \/ h[j].msg # m
    /\ Deliver(k, m)

\* The handler invoked concurrently, one invocation per handler slot.
NextConcurrent ==
    \/ Start
    \/ \E k \in AllHandlers, m \in Messages : DeliverDistinct(k, m)
    \/ \E k \in AllHandlers : HandlerReturn(k, FALSE)
    \/ \E k \in AllHandlers : Entry(k)
    \/ \E k \in AllHandlers : ProcessConcurrent(k)
    \/ \E k \in AllHandlers : DispatchValidate(k)
    \/ \E k \in AllHandlers : DispatchSend(k)
    \/ \E k \in AllHandlers : Finalize(k)
    \/ \E k \in AllHandlers : Complete(k)

SpecConcurrent == Init /\ [][NextConcurrent]_vars

\* Startup and what follows it: NewAdapter from any environment, then the
\* Listener and the handler.
NextStartup == NewAdapter \/ Next

SpecStartup == InitStartup /\ [][NextStartup]_vars

(***************************************************************************)
(* Properties of handleMessage.  They are stated on the invocation's log   *)
(* of calls, for every handler slot.                                       *)
(***************************************************************************)
\* handleMessage has returned.
Returned(inv) == inv.pc = "done"

\* The processor ran on a non-nil message and returned envelopes.
ProcessedOK(inv) == ~inv.msg.isNil /\ inv.processErr = Nil

\* Every send made so far was ACKed.
AllAcked(inv) == \A i \in DOMAIN inv.results : inv.results[i].kind = "ACK"

\* Some send made so far was not ACKed.
SomeNotAcked(inv) == \E i \in DOMAIN inv.results : inv.results[i].kind # "ACK"

\* The dispatch loop is over.
LoopOver(inv) == inv.pc \in {"finalize", "complete", "done"}

\* How often the envelope of index i was validated.
TimesValidated(inv, i) ==
    Cardinality({j \in DOMAIN inv.validated : inv.validated[j] = i})

\* How often the envelope with the id of produced envelope i was sent.
TimesSent(inv, i) ==
    Cardinality({j \in DOMAIN inv.sent : inv.sent[j].id = inv.produced[i].id})

\* The failures among the sends made so far, in the order of the envelopes:
\* the id of the envelope and the cause the sender gave.
FailedSends(inv) ==
    LET idx == SelectSeq([i \in DOMAIN inv.results |-> i],
                         LAMBDA i : inv.results[i].kind # "ACK")
    IN [j \in DOMAIN idx |->
           [id |-> inv.produced[idx[j]].id, cause |-> inv.results[idx[j]].cause]]

\* C1: when a non-nil message is processed into N >= 0 envelopes and every
\* send is ACKed, handleMessage has invoked the completion handle exactly
\* once when it returns, and returns nil if the completion succeeded; the
\* completion handle is never invoked twice.
C1_CompletedOnceWhenAllAcked ==
    \A k \in AllHandlers :
        /\ h[k].completions <= 1
        /\ (Returned(h[k]) /\ ProcessedOK(h[k]) /\ AllAcked(h[k]))
           => /\ h[k].completions = 1
              /\ (h[k].completeResult = Nil => h[k].ret = Nil)

C1_Witness ==
    \E k \in AllHandlers :
        /\ Returned(h[k]) /\ ProcessedOK(h[k]) /\ AllAcked(h[k])
        /\ Len(h[k].produced) = 2 /\ Len(h[k].results) = 2
        /\ h[k].completeResult = Nil
        /\ h[k].completions = 1 /\ h[k].ret = Nil

\* C2: once a send of the message was not ACKed, the completion handle is
\* not invoked in that handling (the completion step is never reached), and
\* handleMessage returns a non-nil aggregate error of the send failures.
C2_NotCompletedWhenSendFails ==
    \A k \in AllHandlers :
        SomeNotAcked(h[k])
        => /\ h[k].completions = 0
           /\ h[k].pc # "complete"
           /\ (Returned(h[k])
               => /\ h[k].ret # Nil
                  /\ h[k].ret.kind = "sending"
                  /\ Len(h[k].ret.errs) > 0)

C2_Witness ==
    \E k \in AllHandlers :
        /\ Returned(h[k]) /\ SomeNotAcked(h[k])
        /\ \E i \in DOMAIN h[k].results : h[k].results[i].kind = "ACK"
        /\ h[k].completions = 0
        /\ h[k].ret.kind = "sending"

\* C3: after any number of sends, the error batch holds exactly one entry
\* per envelope whose send was not ACKed, in the order of the envelopes,
\* each with the envelope's id and the sender's cause, and no entry for an
\* ACKed envelope; the aggregate error returned carries that batch.
C3_ErrorBatchExact ==
    \A k \in AllHandlers :
        /\ h[k].sendErrs = FailedSends(h[k])
        /\ (Returned(h[k]) /\ h[k].ret.kind = "sending")
           => h[k].ret.errs = FailedSends(h[k])

\* Sends [ACK, fail "timeout"]: one entry, for the second envelope.
C3_Witness ==
    \E k \in AllHandlers :
        /\ Returned(h[k])
        /\ Len(h[k].results) = 2
        /\ h[k].results[1].kind = "ACK"
        /\ h[k].results[2] = [kind |-> "NACK", cause |-> "timeout"]
        /\ h[k].sendErrs = <<[id |-> h[k].produced[2].id, cause |-> "timeout"]>>
        /\ h[k].completions = 0

\* C4: the dispatch loop does not short-circuit: the envelopes handed to
\* the sender are, at any time, the first envelopes of the message in
\* sequence order, one send each, and when the loop is over every one of
\* the N envelopes has been sent, whatever the results of the sends.
C4_NoShortCircuit ==
    \A k \in AllHandlers :
        ProcessedOK(h[k])
        => /\ Len(h[k].sent) <= Len(h[k].produced)
           /\ Len(h[k].results) = Len(h[k].sent)
           /\ \A i \in DOMAIN h[k].sent : h[k].sent[i].id = h[k].produced[i].id
           /\ LoopOver(h[k]) => Len(h[k].sent) = Len(h[k].produced)

C4_Witness ==
    \E k \in AllHandlers :
        /\ Returned(h[k]) /\ ProcessedOK(h[k])
        /\ Len(h[k].produced) = 2
        /\ h[k].results[1].kind # "ACK"
        /\ Len(h[k].sent) = 2
        /\ h[k].sent[2].id = h[k].produced[2].id

\* C5: when the processor fails on a message, no envelope is validated or
\* sent, the completion handle is not invoked, and handleMessage returns an
\* error carrying the message's ID and the processor's cause.
C5_ProcessingErrorReturned ==
    \A k \in AllHandlers :
        (h[k].processErr # Pending /\ h[k].processErr # Nil)
        => /\ h[k].validated = <<>>
           /\ h[k].sent = <<>>
           /\ h[k].completions = 0
           /\ h[k].pc # "complete"
           /\ (Returned(h[k])
               => h[k].ret = [kind |-> "processing", ID |-> h[k].msg.ID,
                              cause |-> h[k].processErr.cause])

C5_Witness ==
    \E k \in AllHandlers :
        /\ Returned(h[k])
        /\ h[k].msg.ID = "m2"
        /\ h[k].processErr = [kind |-> "cause", cause |-> "unsupported"]
        /\ h[k].ret = [kind |-> "processing", ID |-> "m2", cause |-> "unsupported"]
        /\ h[k].sent = <<>> /\ h[k].completions = 0

\* C6: handling a nil message runs no processor, validates and sends
\* nothing, invokes no completion handle, and returns nil.
C6_NilMessageNoOp ==
    \A k \in AllHandlers :
        (h[k].pc # "idle" /\ h[k].msg.isNil)
        => /\ h[k].processed = 0
           /\ h[k].validated = <<>>
           /\ h[k].sent = <<>>
           /\ h[k].completions = 0
           /\ h[k].pc \in {"entry", "done"}
           /\ (Returned(h[k]) => h[k].ret = Nil)

C6_Witness ==
    \E k \in AllHandlers :
        /\ Returned(h[k]) /\ h[k].msg.isNil
        /\ h[k].ret = Nil /\ h[k].processed = 0

\* C7: when every send was ACKed and the completion call fails,
\* handleMessage returns exactly the completion's error, and the
\* completion handle was invoked once.
C7_CompletionErrorPropagated ==
    \A k \in AllHandlers :
        (/\ Returned(h[k]) /\ ProcessedOK(h[k]) /\ AllAcked(h[k])
         /\ h[k].completeResult # Pending /\ h[k].completeResult # Nil)
        => /\ h[k].ret = h[k].completeResult
           /\ h[k].completions = 1

C7_Witness ==
    \E k \in AllHandlers :
        /\ Returned(h[k]) /\ ProcessedOK(h[k]) /\ AllAcked(h[k])
        /\ Len(h[k].results) >= 1
        /\ h[k].completeResult = [kind |-> "broker", cause |-> "lock lost"]
        /\ h[k].ret = [kind |-> "broker", cause |-> "lock lost"]
        /\ h[k].completions = 1

\* C8: an envelope produced with a dataschema that fails validation is
\* handed to the sender with dataschema cleared and nothing else changed,
\* is validated exactly once and is sent exactly once.
C8_BadSchemaClearedAndSentOnce ==
    \A k \in AllHandlers :
        \A i \in DOMAIN h[k].produced :
            h[k].produced[i].dataschema = "#"
            => /\ i \in DOMAIN h[k].sent
                  => h[k].sent[i] = [h[k].produced[i] EXCEPT !.dataschema = ""]
               /\ TimesValidated(h[k], i) <= 1
               /\ TimesSent(h[k], i) <= 1
               /\ TimesSent(h[k], i) <= TimesValidated(h[k], i)
               /\ LoopOver(h[k])
                  => TimesValidated(h[k], i) = 1 /\ TimesSent(h[k], i) = 1

C8_Witness ==
    \E k \in AllHandlers :
        /\ Returned(h[k])
        /\ Len(h[k].produced) = 2
        /\ h[k].produced[2] = Envelope(h[k].msg.ID, 2, "#", "t")
        /\ h[k].sent[2] = Envelope(h[k].msg.ID, 2, "", "t")
        /\ TimesValidated(h[k], 2) = 1
        /\ TimesSent(h[k], 2) = 1

(***************************************************************************)
(* Properties of startup.  They are stated on the record of NewAdapter     *)
(* while its parameter and locals are there.                               *)
(***************************************************************************)
\* parseServiceBusResourceID has run and NewAdapter has not returned.
Parsed(s) == s.pc \notin {"parse", "constructed"}

\* parseServiceBusResourceID returned an error.
ParseFailed(s) == s.pc = "panicked" /\ s.panic.kind = "Unable to parse entity ID"

\* The resource ID string of s deserializes and names the Service Bus provider.
NamesServiceBus(s) ==
    LET u == UnmarshalResourceID(s.env.EntityResourceID)
    IN u.err = Nil /\ u.resID.ResourceProvider = "Microsoft.ServiceBus"

\* The validity rule on the types: queue or topic; a queue has no
\* sub-resource; the sub-resource of a topic is a subscription.
TypesValid(r) ==
    /\ r.ResourceType \in {"queues", "topics"}
    /\ r.ResourceType = "queues" => r.SubResourceType = ""
    /\ r.ResourceType = "topics" => r.SubResourceType = "subscriptions"

\* parse failed with the "not a supported entity" error.
NotSupportedEntity(s) ==
    /\ ParseFailed(s)
    /\ s.panic.cause = [kind |-> "resource ID does not refer to a Service Bus entity"]

\* C11 as stated: for an identifier that deserializes and names the Service
\* Bus provider, parse succeeds if and only if the validity rule on the
\* types holds, and fails with the "not a supported entity" error otherwise.
C11_Original ==
    (Parsed(su) /\ NamesServiceBus(su))
    => LET r == UnmarshalResourceID(su.env.EntityResourceID).resID
       IN /\ ~ParseFailed(su) <=> TypesValid(r)
          /\ ~TypesValid(r) => NotSupportedEntity(su)

\* C11, amended: for an identifier that deserializes and names the Service
\* Bus provider, parse succeeds if and only if the namespace is not empty
\* and the validity rule on the types holds; it returns the deserialized
\* identifier then, and fails with the "not a supported entity" error
\* otherwise.
C11_ParseValidity ==
    (Parsed(su) /\ NamesServiceBus(su))
    => LET r == UnmarshalResourceID(su.env.EntityResourceID).resID
           valid == r.Namespace # "" /\ TypesValid(r)
       IN /\ ~ParseFailed(su) <=> valid
          /\ valid => su.entityID = r
          /\ ~valid => NotSupportedEntity(su)

\* A queue with a sub-resource, in a namespace, is rejected.
C11_Witness ==
    /\ NotSupportedEntity(su)
    /\ su.env.EntityResourceID =
           <<"subscriptions", "s1", "resourceGroups", "rg1", "providers",
             "Microsoft.ServiceBus", "namespaces", "ns1", "queues", "n1",
             "subscriptions", "s1">>

\* NewAdapter has computed the entity path of the locator parse accepted.
PathComputed(s) ==
    \/ s.pc = "processor"
    \/ /\ s.pc = "panicked"
       /\ s.panic.kind \in {"Unable to obtain message receiver for Service Bus entity",
                            "unsupported message processor"}

\* C12: for every locator accepted by parse, the entity path is exactly the
\* queue name for a queue and <topicName>/Subscriptions/<subscriptionName>
\* for a topic subscription, and one of the two is the case: the path is
\* never the empty string of the "otherwise" branch.
C12_EntityPath ==
    PathComputed(su)
    => /\ su.entityID.ResourceType \in {"queues", "topics"}
       /\ su.entityID.ResourceType = "queues"
          => su.path = <<su.entityID.ResourceName>>
       /\ su.entityID.ResourceType = "topics"
          => su.path = <<su.entityID.ResourceName, "/Subscriptions/",
                         su.entityID.SubResourceName>>
       /\ su.path # <<>>

C12_Witness ==
    /\ su.pc = "processor"
    /\ su.entityID.ResourceType = "topics"
    /\ su.path = <<"n1", "/Subscriptions/", "s1">>

\* The namespace option has tried an authentication method, and NewAdapter
\* has not returned.
AuthTried(s) == s.attempts # <<>>

\* The connection string composed from the key of s's environment.
ComposedFromKey(s) ==
    [Endpoint |-> <<"sb://", s.entityID.Namespace, ".", "servicebus.windows.net">>,
     SharedAccessKeyName |-> s.env.keyName,
     SharedAccessKey |-> s.env.keyValue,
     EntityPath |-> IF s.entityID.ResourceType = "queues"
                    THEN <<s.entityID.ResourceName>>
                    ELSE <<s.entityID.ResourceName, "/Subscriptions/",
                           s.entityID.SubResourceName>>]

\* The connection string as configured in s's environment.
ConfiguredInEnv(s) == [raw |-> s.env.connStr]

\* The order and the outcome of the authentication attempts: the
\* connection string first, AAD only after the connection string failed,
\* the first success returned, and an error naming both failures if both
\* failed.
AttemptsInOrder(s) ==
    /\ Len(s.attempts) <= 2
    /\ s.attempts[1].method = "SAS"
    /\ Len(s.attempts) = 2
       => s.attempts[2].method = "AAD" /\ s.attempts[1].err # Nil
    /\ s.attempts[Len(s.attempts)].err = Nil
       => s.nsErr = Nil /\ s.pc \in {"receiver", "processor", "panicked"}
    /\ (s.attempts[1].err # Nil /\ Len(s.attempts) = 1) => s.pc = "aad"
    /\ (Len(s.attempts) = 2 /\ s.attempts[2].err # Nil)
       => /\ s.pc = "panicked"
          /\ s.nsErr = [kind |-> "auth", aad |-> s.attempts[2].err,
                        sas |-> s.attempts[1].err]
          /\ s.panic.cause = s.nsErr

\* C13 as stated: with a key name and a key value both present, the
\* connection string composed from them is the one tried; otherwise the
\* configured connection string is tried; then the order and the outcome of
\* the attempts.
C13_Original ==
    AuthTried(su)
    => /\ (su.env.keyName # "" /\ su.env.keyValue # "")
          => su.attempts[1].connStr = ComposedFromKey(su)
       /\ ~(su.env.keyName # "" /\ su.env.keyValue # "")
          => su.attempts[1].connStr = ConfiguredInEnv(su)
       /\ AttemptsInOrder(su)

\* C13, amended: when the key name or the key value is present, the
\* connection string composed from them (not the configured one) is the one
\* tried; when neither is, the configured connection string is tried; AAD
\* binding is attempted only after the connection-string binding failed;
\* the first success is returned; if both fail the error names both
\* failures.
C13_AuthPrecedence ==
    AuthTried(su)
    => /\ (su.env.keyName # "" \/ su.env.keyValue # "")
          => su.attempts[1].connStr = ComposedFromKey(su)
       /\ (su.env.keyName = "" /\ su.env.keyValue = "")
          => su.attempts[1].connStr = ConfiguredInEnv(su)
       /\ AttemptsInOrder(su)

\* Key and connection string both configured, both bindings fail.
C13_Witness ==
    /\ su.pc = "panicked"
    /\ su.env.keyName # "" /\ su.env.keyValue # "" /\ su.env.connStr # ""
    /\ Len(su.attempts) = 2
    /\ su.attempts[1].connStr = ComposedFromKey(su)
    /\ su.attempts[1].connStr # ConfiguredInEnv(su)
    /\ su.nsErr = [kind |-> "auth", aad |-> [kind |-> "binding failed"],
                   sas |-> [kind |-> "binding failed"]]

\* The resource identifier of s is unparseable or names no supported entity.
BadResourceID(s) ==
    LET u == UnmarshalResourceID(s.env.EntityResourceID)
    IN \/ u.err # Nil
       \/ u.resID.ResourceProvider # "Microsoft.ServiceBus"
       \/ u.resID.Namespace = ""
       \/ ~TypesValid(u.resID)

\* Both authentication methods were tried and failed.
NoUsableAuth(s) ==
    /\ Len(s.attempts) = 2
    /\ s.attempts[1].err # Nil
    /\ s.attempts[2].err # Nil

\* The switch on the processor name was reached with an unknown name.
UnknownProcessor(s) ==
    /\ s.pc = "panicked"
    /\ s.env.MessageProcessor # "default"
    /\ s.path # <<>>
    /\ s.panic.kind # "Unable to obtain message receiver for Service Bus entity"

\* No invocation of the handler has started.
NothingHandled == \A k \in AllHandlers : h[k] = IdleSlot

\* C14: a configuration error (unparseable or unsupported resource
\* identifier, no usable authentication method, unknown processor name)
\* ends NewAdapter in a panic; after a panic no adapter is returned, the
\* Listener stays Idle, Start has not run and no message is handled; and an
\* adapter that was returned has a supported processor.
C14_ConfigErrorFatal ==
    /\ (Parsed(su) /\ BadResourceID(su)) => su.pc = "panicked"
    /\ NoUsableAuth(su) => su.pc = "panicked"
    /\ su.pc = "constructed"
       => ~su.adapter.isNil /\ su.adapter.msgPrcsr = "default"
    /\ su.pc # "constructed"
       => /\ su.adapter = [isNil |-> TRUE]
          /\ lstate = "Idle"
          /\ startRet = [kind |-> "pending"]
          /\ NothingHandled

C14_Witness ==
    /\ UnknownProcessor(su)
    /\ su.panic.kind = "unsupported message processor"
    /\ su.env.MessageProcessor = "custom"
    /\ su.adapter = [isNil |-> TRUE]
    /\ lstate = "Idle"
    /\ NothingHandled

(***************************************************************************)
(* Properties of the handler under concurrent invocation.                  *)
(***************************************************************************)
\* What the invocation hands to the sender for its i-th envelope when it
\* handles its message alone.
SentAlone(inv, i) ==
    IF inv.produced[i].dataschema = "#"
    THEN [inv.produced[i] EXCEPT !.dataschema = ""]
    ELSE inv.produced[i]

\* What handleMessage returns when it handles the message alone, given the
\* results its own calls got.
ReturnedAlone(inv) ==
    IF inv.msg.isNil THEN [kind |-> "nil"]
    ELSE IF inv.processErr # [kind |-> "nil"]
         THEN [kind |-> "processing", ID |-> inv.msg.ID,
               cause |-> inv.processErr.cause]
         ELSE IF SomeNotAcked(inv)
              THEN [kind |-> "sending", errs |-> FailedSends(inv)]
              ELSE inv.completeResult

\* The outcome of an invocation is the one of handling its message alone:
\* it depends on its own message and on the results of its own calls only.
AsIfAlone(inv) ==
    /\ Len(inv.sent) = Len(inv.results)
    /\ \A i \in DOMAIN inv.sent :
           /\ inv.sent[i] = SentAlone(inv, i)
           /\ inv.sent[i].id[1] = inv.msg.ID
    /\ inv.sendErrs = FailedSends(inv)
    /\ inv.completions = (IF inv.completeResult = [kind |-> "pending"] THEN 0 ELSE 1)
    /\ inv.completions = 1
       => AllAcked(inv) /\ Len(inv.results) = Len(inv.produced)
    /\ (Returned(inv) /\ ProcessedOK(inv) /\ AllAcked(inv)) => inv.completions = 1
    /\ Returned(inv) => inv.ret = ReturnedAlone(inv)

\* C15: in every interleaving of invocations of handleMessage on distinct
\* messages, the outcome of each (the envelopes sent for it, whether its
\* completion handle is invoked, the error returned) is the one of handling
\* its message alone, and its completion depends only on the results of
\* the sends of its own envelopes.
C15_ConcurrentAsIfAlone ==
    \A k \in AllHandlers : h[k].pc # "idle" => AsIfAlone(h[k])

\* Two invocations in their dispatch loops at once, on distinct messages:
\* the first send of one failed, the first send of the other was ACKed.
C15_Witness ==
    /\ h["h1"].pc = "send" /\ h["h2"].pc = "send"
    /\ ~h["h1"].msg.isNil /\ ~h["h2"].msg.isNil
    /\ h["h1"].msg # h["h2"].msg
    /\ h["h1"].i = 2 /\ h["h2"].i = 2
    /\ h["h1"].results = <<[kind |-> "NACK", cause |-> "timeout"]>>
    /\ h["h2"].results = <<[kind |-> "ACK", cause |-> ""]>>
    /\ h["h1"].sendErrs # <<>> /\ h["h2"].sendErrs = <<>>

(***************************************************************************)
(* Further properties of handleMessage and of startup.                     *)
(***************************************************************************)
\* C16: the steps of one handling are strictly sequential: the processor
\* has finished, without error, before the first envelope is validated or
\* sent; the envelopes are validated in sequence order, envelope i + 1 only
\* once the result of the send of envelope i is there; and the completion
\* handle is reached only once the result of the last send is there.
C16_StrictlySequential ==
    \A k \in AllHandlers :
        /\ h[k].processed <= 1
        /\ (h[k].validated # <<>> \/ h[k].sent # <<>> \/ h[k].completions > 0)
           => h[k].processed = 1 /\ h[k].processErr = Nil
        /\ \A j \in DOMAIN h[k].validated : h[k].validated[j] = j
        /\ Len(h[k].results) = Len(h[k].sent)
        /\ Len(h[k].sent) <= Len(h[k].validated)
        /\ Len(h[k].validated) <= Len(h[k].results) + 1
        /\ (h[k].pc = "complete" \/ h[k].completions > 0)
           => /\ Len(h[k].results) = Len(h[k].produced)
              /\ Len(h[k].validated) = Len(h[k].produced)

C16_Witness ==
    \E k \in AllHandlers :
        /\ Returned(h[k])
        /\ Len(h[k].produced) = 2
        /\ h[k].validated = <<1, 2>>
        /\ Len(h[k].results) = 2
        /\ h[k].completions = 1

\* The produced envelope fails validation on attributes without a fix only.
FailsWithoutFix(ev) == ev.type = "" /\ ev.dataschema # "#"

\* C18: an envelope that fails validation only on attributes without a
\* known fix is left as it was produced, and is still validated once and
\* sent once, as it was produced; no envelope ever differs from what was
\* produced in a field other than dataschema.
C18_NoFixLeavesEnvelope ==
    \A k \in AllHandlers :
        \A i \in DOMAIN h[k].produced :
            /\ h[k].events[i].id = h[k].produced[i].id
            /\ h[k].events[i].type = h[k].produced[i].type
            /\ FailsWithoutFix(h[k].produced[i])
               => /\ h[k].events[i] = h[k].produced[i]
                  /\ i \in DOMAIN h[k].sent => h[k].sent[i] = h[k].produced[i]
                  /\ TimesValidated(h[k], i) <= 1
                  /\ TimesSent(h[k], i) <= 1
                  /\ LoopOver(h[k])
                     => TimesValidated(h[k], i) = 1 /\ TimesSent(h[k], i) = 1

C18_Witness ==
    \E k \in AllHandlers :
        /\ Returned(h[k])
        /\ Len(h[k].produced) = 1
        /\ h[k].produced[1] = Envelope(h[k].msg.ID, 1, "s", "")
        /\ h[k].sent = <<Envelope(h[k].msg.ID, 1, "s", "")>>
        /\ TimesValidated(h[k], 1) = 1

\* The namespace option has computed the connection string, and NewAdapter
\* has not returned.
ConnStrComputed(s) == s.connStr # [kind |-> "pending"]

\* C19: the configured connection string is replaced by a composed one if
\* and only if the key name or the key value is not empty; the composed
\* string carries the key name and the key value as they are, empty ones
\* included; with both empty the configured string is used unchanged.
C19_ConnStrReplacedIffAnyKey ==
    ConnStrComputed(su)
    => /\ su.connStr # ConfiguredInEnv(su)
          <=> (su.env.keyName # "" \/ su.env.keyValue # "")
       /\ (su.env.keyName # "" \/ su.env.keyValue # "")
          => /\ su.connStr = ComposedFromKey(su)
             /\ su.connStr.SharedAccessKeyName = su.env.keyName
             /\ su.connStr.SharedAccessKey = su.env.keyValue
       /\ (su.env.keyName = "" /\ su.env.keyValue = "")
          => su.connStr = [raw |-> su.env.connStr]

\* Only the key value is set: the configured string is discarded and the
\* composed string has an empty key name.
C19_Witness ==
    /\ ConnStrComputed(su)
    /\ su.env.keyName = "" /\ su.env.keyValue = "secret"
    /\ su.env.connStr = "Endpoint=sb://other"
    /\ su.connStr.SharedAccessKeyName = ""
    /\ su.connStr.SharedAccessKey = "secret"
    /\ su.attempts[1].connStr = su.connStr

====
